---- MODULE Spec2Model ----
(***************************************************************************)
(* The DynamoDB-backed LaunchDarkly feature store of                       *)
(* src/dynamodb/dynamodb.go (the batched version, lines 337-640): the      *)
(* tables of the backend, the store instances with their initialized flag, *)
(* and the operations Init, Initialized, All, Get, Upsert and Delete.      *)
(*                                                                         *)
(* Every action is one backend request together with the code that runs    *)
(* up to the next backend request (or up to the return).  Get, All, Upsert *)
(* and Delete issue one request each and are one action; Init issues a     *)
(* scan and a series of BatchWriteItem calls per kind and is a series of   *)
(* actions that other callers can interleave with.                         *)
(***************************************************************************)
EXTENDS Integers, Sequences, FiniteSets, TLC

VARIABLES
    tables,       \* the backend: table name -> (key -> stored attribute map)
    initialized,  \* store instance -> its initialized flag
    proc,         \* store instance -> the Init call it is running, if any
    last,         \* the step taken last: the call, what it read and returned
    pending,      \* point writes issued by concurrent callers, not yet applied
    applied,      \* the order in which the backend applied them
    start         \* the tables when those writes were issued

vars == <<tables, initialized, proc, last, pending, applied, start>>

(***************************************************************************)
(* Bounds of the model.                                                    *)
(***************************************************************************)
MaxVersion == 2
MaxCalls == 2
\* The number of items the backend returns in one page of a scan.
MaxPageItems == 1
\* The length of the longest request list handed to batchWriteRequests alone.
MaxRequests == 52

(***************************************************************************)
(* Program constants.                                                      *)
(***************************************************************************)
primaryPartitionKey == "key"
MaxBatchSize == 25

Kinds == {"Features", "Segments"}
Keys == {"a", "b"}
\* The keys the callers use in the table of a kind.
KindKeys(kind) == IF kind = "Features" THEN Keys ELSE {"a"}
Versions == 1 .. MaxVersion
\* The kind-specific payload of a record, opaque to the store.  "zero" stands
\* for a record whose payload fields all hold their zero value.
Payloads == {"zero", "on"}
Stores == {"s1", "s2"}
TablePrefix == "ld-"
\* Whether a backend request reaches the backend and is answered.
Transports == {"ok", "fail"}

EmptyMap == [x \in {} |-> x]

Min(a, b) == IF a < b THEN a ELSE b

RECURSIVE Perms(_)
\* Every order in which the elements of a finite set can be listed.
Perms(S) ==
    IF S = {} THEN {<<>>}
    ELSE UNION {{<<x>> \o p : p \in Perms(S \ {x})} : x \in S}

(***************************************************************************)
(* The data kinds and their records (ld.VersionedDataKind,                 *)
(* ld.VersionedData).                                                      *)
(***************************************************************************)
GetNamespace(kind) == IF kind = "Features" THEN "features" ELSE "segments"

VersionedData == [key : Keys, version : Versions, deleted : BOOLEAN, payload : Payloads]

\* A shell that is not marked deleted.
MakeDeletedItemUnmarked(kind, key, version) ==
    [key |-> key, version |-> version, deleted |-> FALSE, payload |-> "zero"]

\* kind.MakeDeletedItem(key, version): the tombstone shell of a kind.
MakeDeletedItem(kind, key, version) ==
    [key |-> key, version |-> version, deleted |-> TRUE, payload |-> "zero"]

IsDeleted(item) == item.deleted

(***************************************************************************)
(* The item codec: dynamodbattribute.MarshalMap and unmarshalItem.         *)
(***************************************************************************)
\* How the encoder writes the payload: an empty string held in a dynamically
\* typed value (a variation, a clause value) is written as NULL, and so is nil.
MarshalPayload(payload) ==
    IF payload \in {"emptyString", "null"} THEN [NULL |-> TRUE] ELSE [S |-> payload]

\* How the decoder reads the payload back: NULL is read as nil.
UnmarshalPayload(av) ==
    IF "NULL" \in DOMAIN av THEN "null" ELSE av.S

\* An encoding that leaves the payload fields out.
MarshalMapWithoutPayload(item) ==
    [key     |-> [S |-> item.key],
     version |-> [N |-> item.version],
     deleted |-> [BOOL |-> item.deleted],
     payload |-> [S |-> "zero"]]

\* The error of dynamodbattribute.MarshalMap: a record whose payload holds a
\* value the encoder rejects (a JSON object with an empty key) is not encoded.
MarshalMapError(item) ==
    IF item.payload = "emptyMapKey" THEN "InvalidMarshalError" ELSE "nil"

MarshalMap(item) ==
    [key     |-> [S |-> item.key],
     version |-> [N |-> item.version],
     deleted |-> [BOOL |-> item.deleted],
     payload |-> MarshalPayload(item.payload)]

\* The error of unmarshalItem: dynamodbattribute.UnmarshalMap fails on an
\* attribute whose stored type is not the type of the record's field.
unmarshalError(kind, av) ==
    IF /\ "S" \in DOMAIN av.key
       /\ "N" \in DOMAIN av.version
       /\ "BOOL" \in DOMAIN av.deleted
       /\ DOMAIN av.payload \subseteq {"S", "NULL"}
    THEN "nil" ELSE "UnmarshalTypeError"

unmarshalItem(kind, av) ==
    [key     |-> av.key.S,
     version |-> av.version.N,
     deleted |-> av.deleted.BOOL,
     payload |-> UnmarshalPayload(av.payload)]

\* A table name that does not depend on the kind.
tableNameShared(kind) == TablePrefix \o "features"

tableName(kind) == TablePrefix \o GetNamespace(kind)

TableNames == {tableName(kind) : kind \in Kinds}

(***************************************************************************)
(* The backend requests, as DynamoDB answers them.                         *)
(***************************************************************************)
\* GetItem: the stored attribute map, or an empty map when the key is absent.
GetItem(tbls, table, key) ==
    IF key \in DOMAIN tbls[table] THEN tbls[table][key] ELSE EmptyMap

\* A condition that also lets a write of the stored version through.
ConditionExpressionGE(stored, version) ==
    \/ primaryPartitionKey \notin DOMAIN stored
    \/ version >= stored.version.N

\* A condition that lets every write over a tombstone through.
ConditionExpressionOverTombstone(stored, version) ==
    \/ primaryPartitionKey \notin DOMAIN stored
    \/ version > stored.version.N
    \/ stored.deleted.BOOL

\* A put without a condition.
ConditionExpressionNone(stored, version) == TRUE

\* A condition without attribute_not_exists: it fails when no item is stored.
ConditionExpressionVersionOnly(stored, version) ==
    /\ primaryPartitionKey \in DOMAIN stored
    /\ version > stored.version.N

\* A condition under which a tombstone is final.
ConditionExpressionTombstoneFinal(stored, version) ==
    \/ primaryPartitionKey \notin DOMAIN stored
    \/ version > stored.version.N /\ ~ stored.deleted.BOOL

\* "attribute_not_exists(#key) or :version > #version"
ConditionExpression(stored, version) ==
    \/ primaryPartitionKey \notin DOMAIN stored
    \/ version > stored.version.N

PutEntry(tbl, key, av) ==
    [k \in DOMAIN tbl \cup {key} |-> IF k = key THEN av ELSE tbl[k]]

DeleteEntry(tbl, key) == [k \in DOMAIN tbl \ {key} |-> tbl[k]]

\* PutItem with the condition expression: the error code the request ends with.
PutItemError(tbls, table, av, transport) ==
    IF transport = "fail" THEN "RequestError"
    ELSE IF ConditionExpression(GetItem(tbls, table, av.key.S), av.version.N) THEN "nil"
    ELSE "ConditionalCheckFailedException"

\* The tables after that PutItem.
PutItem(tbls, table, av, transport) ==
    IF PutItemError(tbls, table, av, transport) = "nil"
    THEN [tbls EXCEPT ![table] = PutEntry(@, av.key.S, av)]
    ELSE tbls

(***************************************************************************)
(* The record of a step.                                                   *)
(***************************************************************************)
Step(op, store, kind, key, item, code, res, err, calls) ==
    [op |-> op,
     store |-> store,  \* Init, Initialized: the store instance called
     kind |-> kind, key |-> key,
     item |-> item,    \* the record written, as a set of at most one record
     code |-> code,    \* the error code the backend request ended with
     res |-> res,      \* Get, All: the records returned, by key
     err |-> err,      \* the error returned ("nil": none)
     calls |-> calls,  \* the backend requests the step issued
     data |-> EmptyMap] \* Init: the dataset of the call

NoStep == Step("New", "", "", "", {}, "nil", EmptyMap, "nil", <<>>)

TransportError(transport) == IF transport = "fail" THEN "RequestError" ELSE "nil"

IdleProc == [pc |-> "idle", data |-> EmptyMap, todo |-> {}, kind |-> "", reqs |-> <<>>]

raceVars == <<pending, applied, start>>

(***************************************************************************)
(* Get, lines 474-505.                                                     *)
(***************************************************************************)
\* A Get that reads the tables as they were at an earlier time (a read that
\* is not consistent).
GetResultStale(tbls, kind, key) ==
    IF key \notin DOMAIN start[tableName(kind)] THEN {}
    ELSE LET item == unmarshalItem(kind, start[tableName(kind)][key])
         IN  IF IsDeleted(item) THEN {} ELSE {item}

\* A Get without the check of lines 499-502.
GetResultWithDeleted(tbls, kind, key) ==
    LET result == GetItem(tbls, tableName(kind), key)
    IN  IF DOMAIN result = {} THEN {} ELSE {unmarshalItem(kind, result)}

\* The error Get returns once GetItem has answered, lines 493-497.
GetError(tbls, kind, key) ==
    LET result == GetItem(tbls, tableName(kind), key)
    IN  IF DOMAIN result = {} THEN "nil" ELSE unmarshalError(kind, result)

\* The record Get returns, as a set: empty for nil.
GetResult(tbls, kind, key) ==
    LET result == GetItem(tbls, tableName(kind), key)
    IN  IF DOMAIN result = {} THEN {}
        ELSE IF unmarshalError(kind, result) # "nil" THEN {}
        ELSE LET item == unmarshalItem(kind, result)
             IN  IF IsDeleted(item) THEN {} ELSE {item}

\* A Get that reissues a failed GetItem once and returns what the second
\* request finds.
GetRetrying(kind, key, transport) ==
    LET found == GetResult(tables, kind, key)
    IN  /\ last' = Step("Get", "", kind, key, {}, "nil",
                        [k \in {i.key : i \in found} |-> CHOOSE i \in found : TRUE],
                        GetError(tables, kind, key),
                        IF transport = "fail" THEN <<"GetItem", "GetItem">>
                        ELSE <<"GetItem">>)
        /\ UNCHANGED <<tables, initialized, proc, raceVars>>

Get(kind, key, transport) ==
    LET found == IF transport = "fail" THEN {} ELSE GetResult(tables, kind, key)
    IN  /\ last' = Step("Get", "", kind, key, {}, TransportError(transport),
                        [k \in {i.key : i \in found} |-> CHOOSE i \in found : TRUE],
                        IF transport = "fail" THEN TransportError(transport)
                        ELSE GetError(tables, kind, key),
                        <<"GetItem">>)
        /\ UNCHANGED <<tables, initialized, proc, raceVars>>

(***************************************************************************)
(* All, lines 447-470, with allItems, lines 590-606.                       *)
(***************************************************************************)
\* The page the backend returns next when the items rest are left to scan.
NextPage(rest) ==
    CHOOSE page \in SUBSET rest : Cardinality(page) = Min(MaxPageItems, Cardinality(rest))

\* A scan whose callback stops after the first page.
ScanPagesFirst(rest, items) == items \cup NextPage(rest)

RECURSIVE ScanPages(_, _)
\* ScanPages with the callback of lines 596-599: it appends the items of each
\* page and goes on (returns !lastPage) until the last page.
ScanPages(rest, items) ==
    LET page == NextPage(rest)
        lastPage == rest \ page = {}
    IN  IF lastPage THEN items \cup page
        ELSE ScanPages(rest \ page, items \cup page)

\* allItems: every attribute map the scan of a table returns.
allItems(tbls, table) == ScanPages({tbls[table][k] : k \in DOMAIN tbls[table]}, {})

\* The error All returns once the scan has answered, lines 459-463.
AllError(tbls, kind) ==
    IF \E i \in allItems(tbls, tableName(kind)) : unmarshalError(kind, i) # "nil"
    THEN "UnmarshalTypeError" ELSE "nil"

\* An All that skips the items it cannot decode.
AllResultSkipping(tbls, kind) ==
    LET items == {unmarshalItem(kind, i) :
                     i \in {j \in allItems(tbls, tableName(kind)) :
                                unmarshalError(kind, j) = "nil"}}
        live == {item \in items : ~ IsDeleted(item)}
    IN  [k \in {item.key : item \in live} |-> CHOOSE item \in live : item.key = k]

AllResult(tbls, kind) ==
    IF AllError(tbls, kind) # "nil" THEN EmptyMap
    ELSE LET items == {unmarshalItem(kind, i) : i \in allItems(tbls, tableName(kind))}
             live == {item \in items : ~ IsDeleted(item)}
         IN  [k \in {item.key : item \in live} |-> CHOOSE item \in live : item.key = k]

\* An All that removes the tombstones it has scanned from the table.
AllPurgingTombstones(kind, transport) ==
    /\ last' = Step("All", "", kind, "", {}, TransportError(transport),
                    IF transport = "fail" THEN EmptyMap ELSE AllResult(tables, kind),
                    IF transport = "fail" THEN TransportError(transport)
                    ELSE AllError(tables, kind),
                    <<"Scan">>)
    /\ tables' = IF transport = "fail" THEN tables
                 ELSE [tables EXCEPT ![tableName(kind)] =
                          [k \in {j \in DOMAIN @ : ~ @[j].deleted.BOOL} |-> @[k]]]
    /\ UNCHANGED <<initialized, proc, raceVars>>

All(kind, transport) ==
    /\ last' = Step("All", "", kind, "", {}, TransportError(transport),
                    IF transport = "fail" THEN EmptyMap ELSE AllResult(tables, kind),
                    IF transport = "fail" THEN TransportError(transport)
                    ELSE AllError(tables, kind),
                    <<"Scan">>)
    /\ UNCHANGED <<tables, initialized, proc, raceVars>>

(***************************************************************************)
(* Initialized, lines 441-443.                                             *)
(***************************************************************************)
\* An Initialized that reports what any store instance has done.
InitializedOfAnyStore(s) ==
    /\ last' = Step("Initialized", s, "", "", {}, "nil",
                    [k \in {"initialized"} |-> \E t \in Stores : initialized[t]], "nil", <<>>)
    /\ UNCHANGED <<tables, initialized, proc, raceVars>>

Initialized(s) ==
    /\ last' = Step("Initialized", s, "", "", {}, "nil",
                    [k \in {"initialized"} |-> initialized[s]], "nil", <<>>)
    /\ UNCHANGED <<tables, initialized, proc, raceVars>>

(***************************************************************************)
(* updateWithVersioning, lines 521-552, and its callers Upsert and Delete. *)
(***************************************************************************)
\* An error handling that surfaces every error of PutItem.
ReturnedErrorAny(code) == code

\* What updateWithVersioning returns for the error code of its PutItem.
ReturnedError(code) ==
    IF code = "ConditionalCheckFailedException" THEN "nil" ELSE code

updateWithVersioning(op, kind, item, transport) ==
    LET table == tableName(kind)
        av == MarshalMap(item)
    IN  /\ IF MarshalMapError(item) # "nil"
           THEN /\ UNCHANGED tables
                /\ last' = Step(op, "", kind, item.key, {item}, MarshalMapError(item),
                                EmptyMap, MarshalMapError(item), <<>>)
           ELSE /\ tables' = PutItem(tables, table, av, transport)
                /\ last' = Step(op, "", kind, item.key, {item},
                                PutItemError(tables, table, av, transport), EmptyMap,
                                ReturnedError(PutItemError(tables, table, av, transport)),
                                <<"PutItem">>)
        /\ UNCHANGED <<initialized, proc>>

Upsert(kind, item, transport) ==
    updateWithVersioning("Upsert", kind, item, transport)

\* A Delete that removes the item instead of writing a tombstone.
DeleteRemovesItem(kind, key, version, transport) ==
    /\ tables' = IF transport = "fail" THEN tables
                 ELSE [tables EXCEPT ![tableName(kind)] = DeleteEntry(@, key)]
    /\ last' = Step("Delete", "", kind, key, {MakeDeletedItem(kind, key, version)},
                    TransportError(transport), EmptyMap, TransportError(transport),
                    <<"DeleteItem">>)
    /\ UNCHANGED <<initialized, proc>>

Delete(kind, key, version, transport) ==
    updateWithVersioning("Delete", kind, MakeDeletedItem(kind, key, version), transport)

(***************************************************************************)
(* The inputs of the calls: the records written and the datasets of Init   *)
(* (kind -> key -> record).                                                *)
(***************************************************************************)
Live(key, version) == [key |-> key, version |-> version, deleted |-> FALSE, payload |-> "on"]

\* A record that MarshalMap does not encode.
Unencodable(key, version) ==
    [key |-> key, version |-> version, deleted |-> FALSE, payload |-> "emptyMapKey"]

\* A record whose payload holds an empty string in a dynamically typed value.
WithEmptyString(key, version) ==
    [key |-> key, version |-> version, deleted |-> FALSE, payload |-> "emptyString"]

\* The records Upsert is called with: live records, records marked deleted, a
\* record that cannot be encoded and a record that holds an empty string.
UpsertItems(kind) ==
    {Live(key, v) : key \in KindKeys(kind), v \in Versions}
        \cup {MakeDeletedItem(kind, key, v) : key \in KindKeys(kind), v \in Versions}
        \cup {Unencodable("a", MaxVersion)}
        \cup (IF kind = "Features" THEN {WithEmptyString("a", MaxVersion)} ELSE {})

Datasets ==
    { EmptyMap,
      [k \in {"Features"} |-> [key \in {"a", "b"} |-> Live(key, 1)]],
      [k \in {"Features", "Segments"} |->
          IF k = "Features"
          THEN [key \in {"a"} |-> MakeDeletedItem(k, key, 2)]
          ELSE [key \in {"a"} |-> Live(key, 1)]],
      [k \in {"Segments"} |-> EmptyMap],
      [k \in {"Segments"} |-> [key \in {"a"} |-> Unencodable(key, 1)]] }

\* The datasets of two synchronisations that run at the same time.
ConcurrentDatasets ==
    { [k \in {"Features"} |-> [key \in {"a"} |-> Live(key, 1)]],
      [k \in {"Features"} |-> [key \in {"b"} |-> Live(key, 1)]] }

(***************************************************************************)
(* batchWriteRequests, lines 610-624, and BatchWriteItem.                  *)
(***************************************************************************)
\* A loop that submits every request left in one batch.
BatchSizeUnbounded(requests) == Len(requests)

\* The first batch of the loop and the requests left after it.
BatchSize(requests) == Min(Len(requests), MaxBatchSize)

FirstBatch(requests) == SubSeq(requests, 1, BatchSize(requests))

RestRequests(requests) == SubSeq(requests, BatchSize(requests) + 1, Len(requests))

ApplyRequest(tbl, req) ==
    IF req.op = "Put" THEN PutEntry(tbl, req.key, req.item) ELSE DeleteEntry(tbl, req.key)

RECURSIVE ApplyBatch(_, _, _, _)
\* The table after the requests of a batch at the positions the backend
\* processed; it returns the others as UnprocessedItems of a call without error.
ApplyBatch(tbl, batch, processed, i) ==
    IF i > Len(batch) THEN tbl
    ELSE ApplyBatch(IF i \in processed THEN ApplyRequest(tbl, batch[i]) ELSE tbl,
                    batch, processed, i + 1)

BatchWriteItem(tbls, table, batch, processed) ==
    [tbls EXCEPT ![table] = ApplyBatch(@, batch, processed, 1)]

(***************************************************************************)
(* Init, lines 404-438, with truncateTable, lines 554-587.                 *)
(***************************************************************************)
\* truncateTable's delete requests, one per scanned item, in the scan's order.
DeleteRequests(tbls, kind) ==
    LET items == {unmarshalItem(kind, i) : i \in allItems(tbls, tableName(kind))}
    IN  {[i \in 1 .. Len(p) |-> [op |-> "Delete", key |-> p[i], item |-> EmptyMap]] :
            p \in Perms({item.key : item \in items})}

\* Init's put requests for a kind, in the order of the map iteration.
PutRequests(items) ==
    {[i \in 1 .. Len(p) |-> [op |-> "Put", key |-> items[p[i]].key,
                              item |-> MarshalMap(items[p[i]])]] :
        p \in Perms(DOMAIN items)}

RECURSIVE AfterBatches(_, _, _, _, _)
\* Where an Init call stands once a phase ("delete": truncateTable, "put") of a
\* kind has the requests rest left: at the next batch, at the put phase (or at
\* the error of encoding its records), at the scan of the next kind, or at its
\* return.
AfterBatches(data, todo, kind, pc, rest) ==
    IF Len(rest) > 0
    THEN {[pc |-> pc, data |-> data, todo |-> todo, kind |-> kind, reqs |-> rest]}
    ELSE IF pc = "delete" /\ \E k \in DOMAIN data[kind] : MarshalMapError(data[kind][k]) # "nil"
    THEN {[pc |-> "marshalError", data |-> data, todo |-> todo, kind |-> kind, reqs |-> <<>>]}
    ELSE IF pc = "delete"
    THEN UNION {AfterBatches(data, todo, kind, "put", puts) : puts \in PutRequests(data[kind])}
    ELSE IF todo \ {kind} = {}
    THEN {[pc |-> "return", data |-> data, todo |-> {}, kind |-> "", reqs |-> <<>>]}
    ELSE {[pc |-> "scan", data |-> data, todo |-> todo \ {kind}, kind |-> "", reqs |-> <<>>]}

InitStep(s, kind, data, err, calls, returned) ==
    [Step(IF returned THEN "Init" ELSE "InitStep", s, kind, "", {}, err, EmptyMap,
          err, calls) EXCEPT !.data = data]

\* The call either goes on (np), returns the error of MarshalMap (lines
\* 417-421), or returns nil with the flag set (line 435).
InitGoesOn(s, kind, np, calls) ==
    IF np.pc = "marshalError"
    THEN /\ proc' = [proc EXCEPT ![s] = IdleProc]
         /\ UNCHANGED initialized
         /\ last' = InitStep(s, kind, np.data, "InvalidMarshalError", calls, TRUE)
    ELSE IF np.pc = "return"
    THEN /\ proc' = [proc EXCEPT ![s] = IdleProc]
         /\ initialized' = [initialized EXCEPT ![s] = TRUE]
         /\ last' = InitStep(s, kind, np.data, "nil", calls, TRUE)
    ELSE /\ proc' = [proc EXCEPT ![s] = np]
         /\ UNCHANGED initialized
         /\ last' = InitStep(s, kind, np.data, "nil", calls, FALSE)

\* A failing call that sets the flag all the same.
InitFailsSetsFlag(s, kind, calls) ==
    /\ proc' = [proc EXCEPT ![s] = IdleProc]
    /\ UNCHANGED tables
    /\ initialized' = [initialized EXCEPT ![s] = TRUE]
    /\ last' = InitStep(s, kind, proc[s].data, "RequestError", calls, TRUE)

\* A failing call that also clears the flag.
InitFailsClearsFlag(s, kind, calls) ==
    /\ proc' = [proc EXCEPT ![s] = IdleProc]
    /\ UNCHANGED tables
    /\ initialized' = [initialized EXCEPT ![s] = FALSE]
    /\ last' = InitStep(s, kind, proc[s].data, "RequestError", calls, TRUE)

\* The call returns the error of a backend request, lines 409-412 and 427-430.
InitFails(s, kind, calls) ==
    /\ proc' = [proc EXCEPT ![s] = IdleProc]
    /\ UNCHANGED <<tables, initialized>>
    /\ last' = InitStep(s, kind, proc[s].data, "RequestError", calls, TRUE)

\* A truncateTable that has deleted the items it could decode when it returns
\* the error of the one it could not.
InitFailsDecodingAfterDeletes(s, kind) ==
    /\ proc' = [proc EXCEPT ![s] = IdleProc]
    /\ tables' = [tables EXCEPT ![tableName(kind)] =
                     [k \in {j \in DOMAIN @ : unmarshalError(kind, @[j]) # "nil"} |-> @[k]]]
    /\ UNCHANGED initialized
    /\ last' = InitStep(s, kind, proc[s].data, AllError(tables, kind), <<"Scan">>, TRUE)

\* The call returns the error of unmarshalItem that truncateTable returns
\* before it has built a request, lines 565-570 and 409-412.
InitFailsDecoding(s, kind) ==
    /\ proc' = [proc EXCEPT ![s] = IdleProc]
    /\ UNCHANGED <<tables, initialized>>
    /\ last' = InitStep(s, kind, proc[s].data, AllError(tables, kind), <<"Scan">>, TRUE)

\* Init is called: the loop over the kinds of the dataset begins.
InitStart(s, data) ==
    /\ proc[s].pc = "idle"
    /\ UNCHANGED <<tables, raceVars>>
    /\ InitGoesOn(s, "",
                  IF DOMAIN data = {}
                  THEN [pc |-> "return", data |-> data, todo |-> {}, kind |-> "", reqs |-> <<>>]
                  ELSE [pc |-> "scan", data |-> data, todo |-> DOMAIN data, kind |-> "",
                        reqs |-> <<>>],
                  <<>>)

\* The next kind of the map iteration: truncateTable scans its table.
InitScan(s, kind, transport) ==
    /\ proc[s].pc = "scan"
    /\ kind \in proc[s].todo
    /\ UNCHANGED raceVars
    /\ IF transport = "fail"
       THEN InitFails(s, kind, <<"Scan">>)
       ELSE IF AllError(tables, kind) # "nil"
       THEN InitFailsDecoding(s, kind)
       ELSE /\ UNCHANGED tables
            /\ \E dels \in DeleteRequests(tables, kind) :
                 \E np \in AfterBatches(proc[s].data, proc[s].todo, kind, "delete", dels) :
                    InitGoesOn(s, kind, np, <<"Scan">>)

\* One round of the loop of batchWriteRequests, for the deletes or the puts.
InitBatchWrite(s, transport) ==
    LET p == proc[s]
        batch == FirstBatch(p.reqs)
        call == IF p.pc = "delete" THEN "BatchWriteItem:Delete" ELSE "BatchWriteItem:Put"
    IN  /\ p.pc \in {"delete", "put"}
        /\ UNCHANGED raceVars
        /\ IF transport = "fail"
           THEN InitFails(s, p.kind, <<call>>)
           ELSE \E processed \in SUBSET (1 .. Len(batch)) :
                  /\ tables' = BatchWriteItem(tables, tableName(p.kind), batch, processed)
                  /\ \E np \in AfterBatches(p.data, p.todo, p.kind, p.pc,
                                              RestRequests(p.reqs)) :
                        InitGoesOn(s, p.kind, np, <<call>>)

(***************************************************************************)
(* The specifications.                                                     *)
(***************************************************************************)
InitState ==
    /\ tables = [t \in TableNames |-> EmptyMap]
    /\ initialized = [s \in Stores |-> FALSE]
    /\ proc = [s \in Stores |-> IdleProc]
    /\ last = NoStep
    /\ pending = {}
    /\ applied = <<>>
    /\ start = tables

\* No Init call is running.
Quiet == \A s \in Stores : proc[s].pc = "idle"

\* Callers that call one after the other: a call starts when no call runs.
Next ==
    \/ \E kind \in Kinds : \E key \in KindKeys(kind), t \in Transports :
          Quiet /\ Get(kind, key, t)
    \/ \E kind \in Kinds, t \in Transports : Quiet /\ All(kind, t)
    \/ \E s \in Stores : Quiet /\ Initialized(s)
    \/ \E kind \in Kinds : \E item \in UpsertItems(kind), t \in Transports :
          Quiet /\ Upsert(kind, item, t) /\ UNCHANGED raceVars
    \/ \E kind \in Kinds : \E key \in KindKeys(kind), v \in Versions, t \in Transports :
          Quiet /\ Delete(kind, key, v, t) /\ UNCHANGED raceVars
    \/ \E s \in Stores, data \in Datasets : Quiet /\ InitStart(s, data)
    \/ \E s \in Stores, kind \in Kinds, t \in Transports : InitScan(s, kind, t)
    \/ \E s \in Stores, t \in Transports : InitBatchWrite(s, t)

Spec == InitState /\ [][Next]_vars

\* Concurrent callers on the table of one kind: every step of a call
\* interleaves with the steps of the others.  The point reads and writes are
\* those of one key.
NextConcurrent ==
    \/ \E t \in Transports : Get("Features", "a", t)
    \/ \E t \in Transports : All("Features", t)
    \/ \E s \in Stores : Initialized(s)
    \/ \E item \in UpsertItems("Features"), t \in Transports :
          item.key = "a" /\ Upsert("Features", item, t) /\ UNCHANGED raceVars
    \/ \E v \in Versions, t \in Transports : Delete("Features", "a", v, t) /\ UNCHANGED raceVars
    \/ \E s \in Stores, data \in ConcurrentDatasets : InitStart(s, data)
    \/ \E s \in Stores, t \in Transports : InitScan(s, "Features", t)
    \/ \E s \in Stores, t \in Transports : InitBatchWrite(s, t)

SpecConcurrent == InitState /\ [][NextConcurrent]_vars

\* Point writes on one key of one table, issued by concurrent callers from any
\* stored state of the key and applied by the backend one at a time, in any
\* order, with reads of the key in between.
RaceCalls ==
    {[op |-> "Upsert", item |-> item] : item \in {i \in VersionedData : i.key = "a"}}
        \cup {[op |-> "Delete", item |-> MakeDeletedItem("Features", "a", v)] : v \in Versions}

RaceInit ==
    /\ \E stored \in {EmptyMap} \cup {MarshalMap(c.item) : c \in RaceCalls} :
          tables = [t \in TableNames |->
                       IF t = tableName("Features") /\ stored # EmptyMap
                       THEN [k \in {"a"} |-> stored] ELSE EmptyMap]
    /\ initialized = [s \in Stores |-> FALSE]
    /\ proc = [s \in Stores |-> IdleProc]
    /\ last = NoStep
    /\ pending \in {calls \in SUBSET RaceCalls : Cardinality(calls) \in 1 .. MaxCalls}
    /\ applied = <<>>
    /\ start = tables

RaceApply(c) ==
    /\ c \in pending
    /\ IF c.op = "Upsert"
       THEN Upsert("Features", c.item, "ok")
       ELSE Delete("Features", c.item.key, c.item.version, "ok")
    /\ pending' = pending \ {c}
    /\ applied' = Append(applied, c)
    /\ UNCHANGED start

NextRace ==
    \/ \E c \in RaceCalls : RaceApply(c)
    \/ Get("Features", "a", "ok")

SpecRace == RaceInit /\ [][NextRace]_vars

\* Init called again and again with one dataset by one store, no other writer,
\* starting from tables as an earlier Init call of that dataset can have left
\* them: every table holds, for each key, nothing, an item of the old generation
\* or the dataset's record.
RetryDataset ==
    [k \in {"Features", "Segments"} |->
        IF k = "Features" THEN [key \in {"a", "b"} |-> Live(key, 1)]
        ELSE [key \in {"a"} |-> MakeDeletedItem(k, key, 1)]]

\* The tables an Init call of a dataset leaves when every request is applied.
InitContents(data) ==
    [t \in TableNames |->
        IF \E kind \in DOMAIN data : tableName(kind) = t
        THEN LET kind == CHOOSE kind \in DOMAIN data : tableName(kind) = t
             IN  [k \in DOMAIN data[kind] |-> MarshalMap(data[kind][k])]
        ELSE EmptyMap]

HalfRebuilt(data) ==
    {tbls \in [TableNames -> UNION {[ks -> {MarshalMap(Live("a", MaxVersion)),
                                             MarshalMap(Live("b", MaxVersion)),
                                             MarshalMap(Live("a", 1)),
                                             MarshalMap(Live("b", 1)),
                                             MarshalMap(MakeDeletedItem("Segments", "a", 1))}] :
                                     ks \in SUBSET Keys}] :
        \A t \in TableNames : \A k \in DOMAIN tbls[t] :
            /\ tbls[t][k].key.S = k
            /\ \/ tbls[t][k].version.N = MaxVersion
               \/ /\ k \in DOMAIN InitContents(data)[t]
                  /\ tbls[t][k] = InitContents(data)[t][k]}

RetryInit ==
    /\ tables \in HalfRebuilt(RetryDataset)
    /\ initialized \in [Stores -> BOOLEAN]
    /\ proc = [s \in Stores |-> IdleProc]
    /\ last = NoStep
    /\ pending = {}
    /\ applied = <<>>
    /\ start = tables

NextRetry ==
    \/ InitStart("s1", RetryDataset)
    \/ \E kind \in Kinds, t \in Transports : InitScan("s1", kind, t)
    \/ \E t \in Transports : InitBatchWrite("s1", t)

SpecRetry == RetryInit /\ [][NextRetry]_vars

\* Reads of tables that hold items the store did not write: for every key a
\* table holds nothing, a live record, a tombstone, or an item whose version
\* attribute is a string, which does not decode into a record.
CorruptItem(key) ==
    [key     |-> [S |-> key],
     version |-> [S |-> "1"],
     deleted |-> [BOOL |-> FALSE],
     payload |-> [S |-> "on"]]

StoredItems(key) ==
    {MarshalMap(Live(key, 1)), MarshalMap(MakeDeletedItem("Features", key, 1)),
     CorruptItem(key)}

DecodeInit ==
    /\ tables \in {tbls \in [TableNames -> UNION {[ks -> UNION {StoredItems(k) : k \in Keys}] :
                                                    ks \in SUBSET Keys}] :
                       \A kind \in Kinds :
                          /\ DOMAIN tbls[tableName(kind)] \subseteq KindKeys(kind)
                          /\ \A k \in DOMAIN tbls[tableName(kind)] :
                                tbls[tableName(kind)][k] \in StoredItems(k)}
    /\ initialized = [s \in Stores |-> FALSE]
    /\ proc = [s \in Stores |-> IdleProc]
    /\ last = NoStep
    /\ pending = {}
    /\ applied = <<>>
    /\ start = tables

NextDecode ==
    \/ \E kind \in Kinds : \E key \in KindKeys(kind), t \in Transports :
          Quiet /\ Get(kind, key, t)
    \/ \E kind \in Kinds, t \in Transports : Quiet /\ All(kind, t)
    \/ Quiet /\ InitStart("s1", RetryDataset)
    \/ \E kind \in Kinds, t \in Transports : InitScan("s1", kind, t)
    \/ \E t \in Transports : InitBatchWrite("s1", t)

SpecDecode == DecodeInit /\ [][NextDecode]_vars

\* The record of a key as Get and All return it.
Returned(item) == [k \in {item.key} |-> item]

\* The codec alone: a record of a kind is encoded as Init and
\* updateWithVersioning encode it, and the attribute map is decoded as Get and
\* All decode it.
CodecRecords ==
    [key : Keys, version : Versions, deleted : BOOLEAN,
     payload : Payloads \cup {"emptyString", "emptyMapKey", "null"}]

CodecInit ==
    /\ tables = [t \in TableNames |-> EmptyMap]
    /\ initialized = [s \in Stores |-> FALSE]
    /\ proc = [s \in Stores |-> IdleProc]
    /\ \E kind \in Kinds, item \in CodecRecords :
          last = Step("Record", "", kind, item.key, {item}, "nil", EmptyMap, "nil", <<>>)
    /\ pending = {}
    /\ applied = <<>>
    /\ start = tables

\* MarshalMap, then unmarshalItem of its result.
RoundTrip ==
    /\ last.op = "Record"
    /\ \E item \in last.item :
          last' = IF MarshalMapError(item) # "nil"
                  THEN Step("RoundTrip", "", last.kind, item.key, {item},
                            MarshalMapError(item), EmptyMap, MarshalMapError(item), <<>>)
                  ELSE Step("RoundTrip", "", last.kind, item.key, {item},
                            unmarshalError(last.kind, MarshalMap(item)),
                            Returned(unmarshalItem(last.kind, MarshalMap(item))),
                            unmarshalError(last.kind, MarshalMap(item)), <<>>)
    /\ UNCHANGED <<tables, initialized, proc, raceVars>>

SpecCodec == CodecInit /\ [][RoundTrip]_vars

\* Readers next to Init calls on a table that holds a live record of key a:
\* every read interleaves with the steps of the Init calls.
WindowInit ==
    /\ tables = [t \in TableNames |->
                    IF t = tableName("Features")
                    THEN [k \in {"a"} |-> MarshalMap(Live(k, 1))] ELSE EmptyMap]
    /\ initialized = [s \in Stores |-> FALSE]
    /\ proc = [s \in Stores |-> IdleProc]
    /\ last = NoStep
    /\ pending = {}
    /\ applied = <<>>
    /\ start = tables

NextWindow ==
    \/ \E t \in Transports : Get("Features", "a", t)
    \/ \E t \in Transports : All("Features", t)
    \/ \E s \in Stores, data \in ConcurrentDatasets : InitStart(s, data)
    \/ \E s \in Stores, t \in Transports : InitScan(s, "Features", t)
    \/ \E s \in Stores, t \in Transports : InitBatchWrite(s, t)

SpecWindow == WindowInit /\ [][NextWindow]_vars

\* Two callers (a scheduled run and a webhook-triggered run, src/serverless.yml
\* lines 32-40), each with a store of its own and a dataset of its own, call
\* Init until it has returned nil once; their steps interleave, and All reads
\* the table in between.
InitDataset(s) ==
    [kind \in {"Features"} |->
        IF s = "s1" THEN [k \in {"a"} |-> Live(k, 1)] ELSE [k \in {"b"} |-> Live(k, 1)]]

NextTwoInits ==
    \/ \E t \in Transports : All("Features", t)
    \/ \E s \in Stores : ~ initialized[s] /\ InitStart(s, InitDataset(s))
    \/ \E s \in Stores, t \in Transports : InitScan(s, "Features", t)
    \/ \E s \in Stores, t \in Transports : InitBatchWrite(s, t)

SpecTwoInits == (InitState \/ WindowInit) /\ [][NextTwoInits]_vars

\* batchWriteRequests alone, on a request list of any length up to
\* MaxRequests: start is the list it is called with, proc[s].reqs the requests
\* it has left, and applied the batches it has submitted so far.
Requests(n) == [i \in 1 .. n |-> [op |-> "Put", key |-> i, item |-> EmptyMap]]

BatchesInit ==
    /\ tables = [t \in TableNames |-> EmptyMap]
    /\ initialized = [s \in Stores |-> FALSE]
    /\ \E n \in 0 .. MaxRequests :
          /\ proc = [s \in Stores |->
                        IF s = "s1"
                        THEN [pc |-> "put", data |-> EmptyMap, todo |-> {},
                              kind |-> "Features", reqs |-> Requests(n)]
                        ELSE IdleProc]
          /\ start = Requests(n)
    /\ last = NoStep
    /\ pending = {}
    /\ applied = <<>>

\* One round of the loop of lines 611-622, or its end at line 623.
batchWriteRequests(s, transport) ==
    LET requests == proc[s].reqs
        batch == FirstBatch(requests)
        rest == RestRequests(requests)
    IN  /\ proc[s].pc = "put"
        /\ UNCHANGED <<tables, initialized, pending, start>>
        /\ IF Len(requests) = 0
           THEN /\ transport = "ok"
                /\ applied' = applied
                /\ proc' = [proc EXCEPT ![s] = IdleProc]
                /\ last' = Step("batchWriteRequests", s, proc[s].kind, "", {}, "nil",
                                EmptyMap, "nil", <<>>)
           ELSE /\ applied' = Append(applied, batch)
                /\ proc' = [proc EXCEPT ![s] =
                               IF transport = "fail" \/ Len(rest) = 0 THEN IdleProc
                               ELSE [@ EXCEPT !.reqs = rest]]
                /\ last' = Step(IF transport = "fail" \/ Len(rest) = 0
                                THEN "batchWriteRequests" ELSE "batchWriteRound",
                                s, proc[s].kind, "", {}, TransportError(transport),
                                EmptyMap, TransportError(transport), <<"BatchWriteItem">>)

NextBatches == \E t \in Transports : batchWriteRequests("s1", t)

SpecBatches == BatchesInit /\ [][NextBatches]_vars

(***************************************************************************)
(* The earlier Init, lines 100-129, with its truncateTable, lines 251-287:  *)
(* one DeleteItem per scanned item and one PutItem per record.  It is run   *)
(* by store s2 on the tables held in start, next to the Init of lines       *)
(* 404-438 run by store s1 on tables, from the same contents and with the   *)
(* same dataset.                                                            *)
(***************************************************************************)
\* The items ScanPages returns, in the order of the scan.
ScannedItems(tbls, kind) ==
    LET tbl == tbls[tableName(kind)]
    IN  {[i \in 1 .. Len(p) |-> tbl[p[i]]] : p \in Perms(DOMAIN tbl)}

\* The records of a kind in the order of the map iteration.
RecordsInOrder(items) ==
    {[i \in 1 .. Len(p) |-> items[p[i]]] : p \in Perms(DOMAIN items)}

RECURSIVE InitPerItemAfter(_, _, _, _, _)
\* Where the call stands when a loop ("delete": over the scanned items, "put":
\* over the records) has rest left: at the next item, at the puts, at the scan
\* of the next kind, or at its return.
InitPerItemAfter(data, todo, kind, pc, rest) ==
    IF Len(rest) > 0
    THEN {[pc |-> pc, data |-> data, todo |-> todo, kind |-> kind, reqs |-> rest]}
    ELSE IF pc = "delete"
    THEN UNION {InitPerItemAfter(data, todo, kind, "put", puts) :
                   puts \in RecordsInOrder(data[kind])}
    ELSE IF todo \ {kind} = {}
    THEN {[pc |-> "return", data |-> data, todo |-> {}, kind |-> "", reqs |-> <<>>]}
    ELSE {[pc |-> "scan", data |-> data, todo |-> todo \ {kind}, kind |-> "", reqs |-> <<>>]}

\* The call returns an error that is not the error of a backend request.
InitPerItemFails(s, kind, err) ==
    /\ proc' = [proc EXCEPT ![s] = IdleProc]
    /\ UNCHANGED <<start, initialized>>
    /\ last' = InitStep(s, kind, proc[s].data, err, <<>>, TRUE)

\* truncateTable scans the table of the next kind, lines 256-265.
InitPerItemScan(s, kind) ==
    /\ proc[s].pc = "scan"
    /\ kind \in proc[s].todo
    /\ UNCHANGED <<tables, pending, applied, start>>
    /\ \E items \in ScannedItems(start, kind) :
          \E np \in InitPerItemAfter(proc[s].data, proc[s].todo, kind, "delete", items) :
             InitGoesOn(s, kind, np, <<"Scan">>)

\* One round of the loop of truncateTable, lines 267-284: the item is decoded
\* and a DeleteItem of its key is issued.
InitPerItemDelete(s) ==
    LET p == proc[s]
        i == Head(p.reqs)
    IN  /\ p.pc = "delete"
        /\ UNCHANGED <<tables, pending, applied>>
        /\ IF unmarshalError(p.kind, i) # "nil"
           THEN InitPerItemFails(s, p.kind, unmarshalError(p.kind, i))
           ELSE /\ start' = [start EXCEPT ![tableName(p.kind)] =
                                DeleteEntry(@, unmarshalItem(p.kind, i).key)]
                /\ \E np \in InitPerItemAfter(p.data, p.todo, p.kind, "delete", Tail(p.reqs)) :
                      InitGoesOn(s, p.kind, np, <<"DeleteItem">>)

\* One round of the loop of lines 109-123: the record is encoded and a PutItem
\* without a condition is issued.
InitPerItemPut(s) ==
    LET p == proc[s]
        v == Head(p.reqs)
    IN  /\ p.pc = "put"
        /\ UNCHANGED <<tables, pending, applied>>
        /\ IF MarshalMapError(v) # "nil"
           THEN InitPerItemFails(s, p.kind, MarshalMapError(v))
           ELSE /\ start' = [start EXCEPT ![tableName(p.kind)] =
                                PutEntry(@, v.key, MarshalMap(v))]
                /\ \E np \in InitPerItemAfter(p.data, p.todo, p.kind, "put", Tail(p.reqs)) :
                      InitGoesOn(s, p.kind, np, <<"PutItem">>)

\* The datasets of the two calls: those of Init, the empty mapping apart, and
\* one with a record that is not encoded next to one that is.
EquivalenceDatasets ==
    (Datasets \ {EmptyMap})
        \cup {[k \in {"Features"} |->
                 [key \in {"a", "b"} |->
                     IF key = "a" THEN Live(key, 1) ELSE Unencodable(key, 1)]]}

\* Both calls have been made, on the same tables and with the same dataset.
EquivalenceInit ==
    /\ tables \in {tbls \in [TableNames -> UNION {[ks -> UNION {StoredItems(k) : k \in Keys}] :
                                                    ks \in SUBSET Keys}] :
                       \A kind \in Kinds :
                          /\ DOMAIN tbls[tableName(kind)] \subseteq KindKeys(kind)
                          /\ \A k \in DOMAIN tbls[tableName(kind)] :
                                tbls[tableName(kind)][k] \in StoredItems(k)}
    /\ start = tables
    /\ initialized = [s \in Stores |-> FALSE]
    /\ \E data \in EquivalenceDatasets :
          proc = [s \in Stores |->
                     [pc |-> "scan", data |-> data, todo |-> DOMAIN data, kind |-> "",
                      reqs |-> <<>>]]
    /\ last = NoStep
    /\ pending = {}
    /\ applied = <<>>

\* No backend call fails.
NextEquivalence ==
    \/ \E kind \in Kinds : InitScan("s1", kind, "ok")
    \/ InitBatchWrite("s1", "ok")
    \/ \E kind \in Kinds : InitPerItemScan("s2", kind)
    \/ InitPerItemDelete("s2")
    \/ InitPerItemPut("s2")

SpecEquivalence == EquivalenceInit /\ [][NextEquivalence]_vars

(***************************************************************************)
(* The webhook handler of src/store/main.go, lines 24-76: it verifies the   *)
(* signature of the request, then creates a store and a LaunchDarkly client *)
(* that synchronises the store with Init.                                   *)
(***************************************************************************)
\* LAUNCHDARKLY_WEBHOOK_SECRET: empty when no secret is configured.
WebhookSecrets == {"", "secret"}

Bodies == {"", "payload"}

\* hmacSHA256: the hex digest of the message under the secret.  Digests of
\* different (secret, message) pairs differ.
hmacSHA256(message, secret) == "hmac(" \o secret \o "," \o message \o ")"

\* The values of the X-Ld-Signature header: absent, the digest of a body under
\* the configured secret, and the digest under another secret.
Signatures ==
    {""} \cup {hmacSHA256(body, secret) : body \in Bodies, secret \in {"secret", "other"}}

\* A comparison that accepts every signature.
ConstantTimeCompareAny(x, y) == 1

\* subtle.ConstantTimeCompare: 1 when the two byte strings are equal, else 0.
ConstantTimeCompare(x, y) == IF x = y THEN 1 ELSE 0

\* Lines 37-47: the status the signature check ends with.
VerifySignature(secret, body, signature) ==
    IF secret # ""
    THEN IF ConstantTimeCompare(signature, hmacSHA256(body, secret)) # 1
         THEN "StatusUnauthorized" ELSE "verified"
    ELSE "skipped"

\* A request arrives: lines 24-47.
handler(secret, body, signature) ==
    /\ last' = [Step("handler", "", "", "", {}, VerifySignature(secret, body, signature),
                     EmptyMap, "nil", <<>>)
                EXCEPT !.data = [secret |-> secret, body |-> body, signature |-> signature]]
    /\ UNCHANGED <<tables, initialized, proc, raceVars>>

\* Lines 49-65 of a request that passed the check: the store is created and
\* the client starts its Init with the dataset fetched from LaunchDarkly.
handlerSync(s, data) ==
    /\ last.op = "handler"
    /\ last.code # "StatusUnauthorized"
    /\ InitStart(s, data)

NextWebhook ==
    \/ \E secret \in WebhookSecrets, body \in Bodies, signature \in Signatures :
          handler(secret, body, signature)
    \/ \E s \in Stores, data \in ConcurrentDatasets : handlerSync(s, data)
    \/ \E s \in Stores, t \in Transports : InitScan(s, "Features", t)
    \/ \E s \in Stores, t \in Transports : InitBatchWrite(s, t)

SpecWebhook == InitState /\ [][NextWebhook]_vars

(***************************************************************************)
(* Properties.                                                             *)
(***************************************************************************)
\* What a table holds for a key: the stored attribute map, or the empty map.
Stored(kind, key) == GetItem(tables, tableName(kind), key)

Present(kind, key) == key \in DOMAIN tables[tableName(kind)]

\* The step just taken is this call on this key, and the backend answered it.
Answered(step, op, kind, key) ==
    /\ step.op = op
    /\ step.kind = kind
    /\ step.key = key
    /\ step.code \in {"nil", "ConditionalCheckFailedException"}

\* C1: an Upsert of a record whose version is less than or equal to the
\* version stored for its key leaves the stored item as it is, in every
\* attribute, and returns nil (the backend having answered the request).
C1_StaleUpsertIsNoOp ==
    [][\A kind \in Kinds, key \in Keys :
          ( /\ Answered(last', "Upsert", kind, key)
            /\ Present(kind, key)
            /\ \A item \in last'.item : Stored(kind, key).version.N >= item.version )
          => /\ tables' = tables
             /\ last'.err = "nil"]_vars

\* A stale Upsert has run: its record differs from the stored one and carries
\* the stored version, or a lower one.
C1_Witness ==
    /\ last.op = "Upsert"
    /\ last.code = "ConditionalCheckFailedException"
    /\ last.err = "nil"
    /\ \E item \in last.item :
          /\ Stored(last.kind, last.key) # MarshalMap(item)
          /\ Stored(last.kind, last.key).version.N = item.version

\* Between two states, the version stored for each key does not decrease, and
\* a stored item is replaced only by a record of a strictly greater version.
VersionsGrow ==
    \A kind \in Kinds, key \in Keys :
       (Present(kind, key) /\ key \in DOMAIN tables'[tableName(kind)])
       => LET old == tables[tableName(kind)][key]
              new == tables'[tableName(kind)][key]
          IN  /\ new.version.N >= old.version.N
              /\ new # old => new.version.N > old.version.N

ReadBack(item) ==
    IF item.payload = "emptyString" THEN [item EXCEPT !.payload = "null"] ELSE item

GetAfterDelete(kind, key) ==
    /\ Answered(last, "Delete", kind, key)
    /\ Answered(last', "Get", kind, key)

\* Get has answered not-found while the table holds a tombstone for the key.
NotFoundOverTombstone(kind, key) ==
    /\ last'.res = EmptyMap
    /\ last'.err = "nil"
    /\ key \in DOMAIN tables'[tableName(kind)]
    /\ tables'[tableName(kind)][key].deleted.BOOL

\* C6, as claimed: Delete(kind, key, v) followed by Get(kind, key) returns
\* not-found, and a raw read still finds a tombstone for the key.
C6_Original ==
    [][\A kind \in Kinds, key \in Keys :
          GetAfterDelete(kind, key) => NotFoundOverTombstone(kind, key)]_vars

\* C6, amended: Delete(kind, key, v) followed by Get(kind, key) returns
\* not-found over a stored tombstone, unless the key was stored live with a
\* version >= v when Delete was called (the Delete is then a no-op and Get
\* returns the live record).
C6_DeleteThenGet ==
    [][\A kind \in Kinds, key \in Keys :
          ( /\ GetAfterDelete(kind, key)
            /\ last.code = "nil" \/ Stored(kind, key).deleted.BOOL )
          => NotFoundOverTombstone(kind, key)]_vars

\* A Delete has replaced the key's item by its tombstone, which Get hides.
C6_Witness ==
    /\ last.op = "Delete"
    /\ last.code = "nil"
    /\ Stored(last.kind, last.key) = MarshalMap(MakeDeletedItem(last.kind, last.key, 2))
    /\ GetResult(tables, last.kind, last.key) = {}

\* C7: with a tombstone of version v stored for a key, an Upsert of a record
\* of a version <= v is a no-op that returns nil: the tombstone stays as it
\* is, and a Get that follows returns not-found and an All that follows omits
\* the key.
C7_TombstoneRejectsStaleUpsert ==
    /\ [][\A kind \in Kinds, key \in Keys :
             ( /\ Answered(last', "Upsert", kind, key)
               /\ Present(kind, key)
               /\ Stored(kind, key).deleted.BOOL
               /\ \A item \in last'.item : item.version <= Stored(kind, key).version.N )
             => /\ tables' = tables
                /\ last'.err = "nil"
                /\ GetResult(tables', kind, key) = {}
                /\ key \notin DOMAIN AllResult(tables', kind)]_vars
    /\ [][\A kind \in Kinds, key \in Keys :
             ( /\ Answered(last, "Upsert", kind, key)
               /\ last.code = "ConditionalCheckFailedException"
               /\ Present(kind, key)
               /\ Stored(kind, key).deleted.BOOL )
             => /\ Answered(last', "Get", kind, key)
                   => last'.res = EmptyMap /\ last'.err = "nil"
                /\ (last'.op = "All" /\ last'.kind = kind /\ last'.err = "nil")
                   => key \notin DOMAIN last'.res]_vars

\* Over the tombstone of version 2 that Delete writes, an Upsert of a live
\* record of version 1 has been rejected.
C7_Witness ==
    /\ last.op = "Upsert"
    /\ last.code = "ConditionalCheckFailedException"
    /\ last.item = {Live(last.key, 1)}
    /\ Stored(last.kind, last.key) = MarshalMap(MakeDeletedItem(last.kind, last.key, 2))

\* The records of a dataset's kind that are not marked deleted.
NonDeleted(items) == [k \in {key \in DOMAIN items : ~ items[key].deleted} |-> items[k]]

\* An Init call has just returned nil.
InitSucceeded == last.op = "Init" /\ last.err = "nil"

\* C8: after Init(dataset) has returned nil, All(kind) returns exactly the
\* records of dataset[kind] that are not marked deleted, for every kind of the
\* dataset, and Initialized() reports true.
C8_InitThenAll ==
    InitSucceeded
    => /\ initialized[last.store]
       /\ \A kind \in DOMAIN last.data :
             AllResult(tables, kind) = NonDeleted(last.data[kind])

\* C9: after Init(dataset) has returned nil, with no concurrent writer, the
\* table of every kind of the dataset holds exactly the records of
\* dataset[kind], those marked deleted included.
C9_InitReplacesTables ==
    InitSucceeded
    => \A kind \in DOMAIN last.data :
          tables[tableName(kind)]
             = [k \in DOMAIN last.data[kind] |-> MarshalMap(last.data[kind][k])]

\* C10: Get returns not-found (no item, no error) when no item is stored for
\* the key and when the stored item is a tombstone, and never returns a record
\* that is marked deleted.
C10_GetHidesTombstones ==
    /\ last.op = "Get" => \A k \in DOMAIN last.res : ~ last.res[k].deleted
    /\ \A kind \in Kinds, key \in Keys :
          ( /\ Answered(last, "Get", kind, key)
            /\ ~ Present(kind, key) \/ Stored(kind, key).deleted.BOOL )
          => last.res = EmptyMap /\ last.err = "nil"

\* Get has answered not-found for a key whose stored item is a tombstone.
C10_Witness ==
    /\ last.op = "Get"
    /\ last.code = "nil"
    /\ Present(last.kind, last.key)
    /\ Stored(last.kind, last.key).deleted.BOOL
    /\ last.res = EmptyMap
    /\ last.err = "nil"

\* C11: an All whose scan succeeds returns a map whose keys are exactly the
\* keys of the stored items of the kind's table that are not marked deleted,
\* each mapped to its stored record, whatever the number of pages of the scan.
C11_AllReturnsLiveItems ==
    (last.op = "All" /\ last.err = "nil")
    => LET tbl == tables[tableName(last.kind)]
       IN  /\ DOMAIN last.res = {k \in DOMAIN tbl : ~ tbl[k].deleted.BOOL}
           /\ \A k \in DOMAIN last.res :
                 /\ last.res[k].key = tbl[k].key.S
                 /\ last.res[k].version = tbl[k].version.N
                 /\ last.res[k].deleted = tbl[k].deleted.BOOL
                 /\ MarshalPayload(last.res[k].payload) = tbl[k].payload

\* All has scanned a table of two pages, a live item and a tombstone, and has
\* returned the live item alone.
C11_Witness ==
    /\ last.op = "All"
    /\ last.err = "nil"
    /\ Cardinality(DOMAIN tables[tableName(last.kind)]) > MaxPageItems
    /\ \E k \in DOMAIN tables[tableName(last.kind)] :
          tables[tableName(last.kind)][k].deleted.BOOL
    /\ Cardinality(DOMAIN last.res) = 1

\* C12: the initialized flag of a store is false when the store is created,
\* becomes true only in the step in which an Init call of that store returns
\* nil, every kind of its dataset having gone through its scan, deletes and
\* puts without error, and once true it stays true, also when a later Init
\* call fails.
C12_InitializedIsMonotonic ==
    /\ last.op = "New" => \A s \in Stores : ~ initialized[s]
    /\ [][\A s \in Stores :
             /\ initialized[s] => initialized'[s]
             /\ (~ initialized[s] /\ initialized'[s])
                => /\ last'.op = "Init"
                   /\ last'.store = s
                   /\ last'.err = "nil"
                   /\ proc[s].todo \subseteq {last'.kind}
                   /\ Len(RestRequests(proc[s].reqs)) = 0
                   /\ proc'[s] = IdleProc]_vars

\* An Init call of a store whose flag was set by an earlier call has failed,
\* and the flag is still set.
C12_Witness ==
    /\ last.op = "Init"
    /\ last.err = "RequestError"
    /\ initialized[last.store]

\* C13: no step of an Upsert or Delete call removes an item: a key that a
\* table holds (live or tombstone) is held in every later state until a batch
\* delete of Init removes it, and the item a Delete stores is a tombstone.
C13_PointWritesNeverRemove ==
    [][\A kind \in Kinds, key \in Keys :
          /\ (Present(kind, key) /\ key \notin DOMAIN tables'[tableName(kind)])
             => /\ last'.op \in {"Init", "InitStep"}
                /\ last'.calls = <<"BatchWriteItem:Delete">>
          /\ (Answered(last', "Delete", kind, key) /\ tables' # tables)
             => /\ key \in DOMAIN tables'[tableName(kind)]
                /\ tables'[tableName(kind)][key].deleted.BOOL]_vars

\* A Delete has been applied to one key of a table of two items: both keys are
\* still stored, the deleted one as a tombstone.
C13_Witness ==
    /\ last.op = "Delete"
    /\ last.code = "nil"
    /\ Cardinality(DOMAIN tables[tableName(last.kind)]) = 2
    /\ Stored(last.kind, last.key).deleted.BOOL

\* The step just taken is an Upsert or a Delete.
PointWrite(step) == step.op \in {"Upsert", "Delete"}

\* The PutItem of a step failed for another reason than the condition.
WriteFailed(step) ==
    /\ step.calls = <<"PutItem">>
    /\ step.code \notin {"nil", "ConditionalCheckFailedException"}

C15_InitFailsAtOnce ==
    [][\A s \in Stores :
          ( /\ last'.op \in {"Init", "InitStep"}
            /\ last'.store = s
            /\ last'.code = "RequestError" )
          => /\ last'.op = "Init"
             /\ last'.err = "RequestError"
             /\ Len(last'.calls) = 1
             /\ proc[s].pc \in {"scan", "delete", "put"}
             /\ proc'[s] = IdleProc
             /\ initialized' = initialized
             /\ tables' = tables]_vars

\* The scan of the second kind of a dataset has failed: Init has returned the
\* error, the flag is not set and the records put for the first kind are
\* stored.
C15_Witness ==
    /\ last.op = "Init"
    /\ last.err = "RequestError"
    /\ last.calls = <<"Scan">>
    /\ ~ initialized[last.store]
    /\ \E kind \in DOMAIN last.data \ {last.kind} :
          /\ DOMAIN last.data[kind] # {}
          /\ tables[tableName(kind)]
                = [k \in DOMAIN last.data[kind] |-> MarshalMap(last.data[kind][k])]

\* C16: an Init call of a dataset that runs after an earlier Init call of
\* that dataset, successful or failed at any point, with no other writer, and
\* returns nil leaves the tables of the dataset's kinds with the contents one
\* successful Init of the dataset gives them: the dataset's records.
C16_InitConverges ==
    (last.op = "Init" /\ last.err = "nil" /\ last.data = RetryDataset)
    => tables = InitContents(RetryDataset)

\* C20: a step of a call on a kind changes no table but the one named
\* TablePrefix + the kind's namespace: Upsert, Delete and the steps of Init on
\* a kind (a kind of Init's dataset) leave every item of every other table as
\* it is, Upsert and Delete leave every other key of their table as it is, and
\* the reads change nothing.
C20_OnlyTheKindsTable ==
    [][/\ \A t \in DOMAIN tables, k \in Keys :
             ( \/ /\ PointWrite(last')
                  /\ t # TablePrefix \o GetNamespace(last'.kind) \/ k # last'.key
               \/ /\ last'.op \in {"Init", "InitStep"}
                  /\ last'.kind = "" \/ t # TablePrefix \o GetNamespace(last'.kind) )
             => GetItem(tables', t, k) = GetItem(tables, t, k)
       /\ last'.op \in {"Init", "InitStep"} => last'.kind \in DOMAIN last'.data \cup {""}
       /\ last'.op \in {"Get", "All", "Initialized"} => tables' = tables]_vars

\* An Upsert has stored a record while its table holds another key and the
\* table of the other kind holds an item.
C20_Witness ==
    /\ last.op = "Upsert"
    /\ last.code = "nil"
    /\ Cardinality(DOMAIN tables[tableName(last.kind)]) = 2
    /\ \E kind \in Kinds \ {last.kind} : tables[tableName(kind)] # EmptyMap

\* C22: within an Init call and a table the delete batches come before the
\* put batches (a call that is at its puts has no delete left to issue), so
\* that, with no concurrent writer, an Init that has returned nil leaves no
\* item of the old generation whose key is absent from the dataset.
C22_DeleteThenWrite ==
    /\ \A s \in Stores :
          /\ proc[s].pc = "put"
             => \A i \in 1 .. Len(proc[s].reqs) : proc[s].reqs[i].op = "Put"
          /\ proc[s].pc = "delete"
             => \A i \in 1 .. Len(proc[s].reqs) : proc[s].reqs[i].op = "Delete"
    /\ InitSucceeded
       => \A kind \in DOMAIN last.data :
             DOMAIN tables[tableName(kind)] \subseteq DOMAIN last.data[kind]

\* C25: after an Init call has returned nil, a key that is absent from its
\* dataset (whatever item, and so whatever tombstone, the table held for it
\* before) blocks no write: the next Upsert of a record of that key that is not
\* marked deleted, of any version, is applied, and Get then returns the record.
C25_InitErasesVersions ==
    [][\A kind \in Kinds, key \in Keys :
          ( /\ InitSucceeded
            /\ kind \in DOMAIN last.data
            /\ key \notin DOMAIN last.data[kind]
            /\ Answered(last', "Upsert", kind, key)
            /\ \A item \in last'.item : ~ item.deleted )
          => /\ last'.code = "nil"
             /\ GetResult(tables', kind, key) = {ReadBack(item) : item \in last'.item}]_vars

\* C26: an Init call returns nil only when the requests it built have been
\* applied: the BatchWriteItem call after which it returns nil has applied
\* every request of its batch to the table.
C26_SuccessMeansApplied ==
    [][\A s \in Stores :
          ( /\ last'.op = "Init"
            /\ last'.store = s
            /\ last'.err = "nil"
            /\ proc[s].pc \in {"delete", "put"} )
          => tables' = BatchWriteItem(tables, tableName(proc[s].kind),
                                      FirstBatch(proc[s].reqs),
                                      1 .. Len(FirstBatch(proc[s].reqs)))]_vars

\* C27: Delete(kind, key, v) called while the item stored for the key has a
\* version >= v is a no-op that returns nil: the stored item stays as it is
\* and, when it is not marked deleted, the Get that follows returns it.
C27_StaleDeleteIsNoOp ==
    /\ [][\A kind \in Kinds, key \in Keys :
             ( /\ Answered(last', "Delete", kind, key)
               /\ Present(kind, key)
               /\ \A item \in last'.item : Stored(kind, key).version.N >= item.version )
             => /\ tables' = tables
                /\ last'.err = "nil"
                /\ ~ Stored(kind, key).deleted.BOOL
                   => GetResult(tables', kind, key) = {unmarshalItem(kind, Stored(kind, key))}]_vars
    /\ [][\A kind \in Kinds, key \in Keys :
             ( /\ Answered(last, "Delete", kind, key)
               /\ last.code = "ConditionalCheckFailedException"
               /\ Present(kind, key)
               /\ ~ Stored(kind, key).deleted.BOOL
               /\ Answered(last', "Get", kind, key) )
             => /\ last'.err = "nil"
                /\ last'.res = [k \in {key} |-> unmarshalItem(kind, Stored(kind, key))]]_vars

\* A Delete of the version of the live record stored for its key has run: the
\* record is still stored and Get returns it.
C27_Witness ==
    /\ last.op = "Delete"
    /\ last.code = "ConditionalCheckFailedException"
    /\ last.err = "nil"
    /\ last.item = {MakeDeletedItem(last.kind, last.key, 1)}
    /\ Stored(last.kind, last.key) = MarshalMap(Live(last.key, 1))
    /\ GetResult(tables, last.kind, last.key) = {Live(last.key, 1)}

\* C28: an Upsert or a Delete for a key with no stored item is applied,
\* whatever its version (the backend having answered the request).  A Delete
\* of version v on such a key stores the tombstone of version v: Get then
\* returns not-found and an Upsert of a version <= v is a no-op.
C28_FirstWriteIsApplied ==
    /\ [][\A kind \in Kinds, key \in Keys :
             ( /\ PointWrite(last')
               /\ Answered(last', last'.op, kind, key)
               /\ ~ Present(kind, key) )
             => /\ last'.code = "nil"
                /\ last'.err = "nil"
                /\ \A item \in last'.item :
                      /\ tables' = [tables EXCEPT ![tableName(kind)] =
                                       PutEntry(@, key, MarshalMap(item))]
                      /\ last'.op = "Delete"
                         => /\ GetItem(tables', tableName(kind), key)
                                  = MarshalMap(MakeDeletedItem(kind, key, item.version))
                            /\ GetResult(tables', kind, key) = {}
                            /\ \A u \in UpsertItems(kind) :
                                  (u.key = key /\ u.version <= item.version
                                      /\ MarshalMapError(u) = "nil")
                                  => PutItem(tables', tableName(kind), MarshalMap(u), "ok")
                                        = tables']_vars
    /\ [][\A kind \in Kinds, key \in Keys :
             ( /\ Answered(last, "Delete", kind, key)
               /\ last.code = "nil" )
             => /\ Answered(last', "Get", kind, key)
                   => last'.res = EmptyMap /\ last'.err = "nil"
                /\ ( /\ Answered(last', "Upsert", kind, key)
                     /\ \A u \in last'.item : \A d \in last.item : u.version <= d.version )
                   => tables' = tables /\ last'.err = "nil"]_vars

\* A Delete of the highest version on a key without an item has stored its
\* tombstone, over which every Upsert of the key is a no-op.
C28_Witness ==
    /\ last.op = "Delete"
    /\ last.code = "nil"
    /\ last.item = {MakeDeletedItem(last.kind, last.key, MaxVersion)}
    /\ start[tableName(last.kind)] = EmptyMap
    /\ DOMAIN tables[tableName(last.kind)] = {last.key}
    /\ Stored(last.kind, last.key) = MarshalMap(MakeDeletedItem(last.kind, last.key, MaxVersion))
    /\ GetResult(tables, last.kind, last.key) = {}

\* C31: the flag of a store instance is false when the instance is made and
\* changes in exactly one kind of step, the return of nil by an Init call of
\* that same instance, which sets it; no step of another instance and no Get,
\* All, Upsert or Delete changes it, and Initialized() of an instance returns
\* the flag of that instance, whatever the tables hold.
C31_InitializedIsPerInstance ==
    /\ last.op = "New" => \A s \in Stores : initialized[s] = FALSE
    /\ [][\A s \in Stores :
             /\ initialized'[s] # initialized[s]
                <=> /\ ~ initialized[s]
                    /\ last'.op = "Init"
                    /\ last'.store = s
                    /\ last'.err = "nil"
             /\ (last'.op = "Init" /\ last'.store = s /\ last'.err = "nil") => initialized'[s]
             /\ (last'.op = "Initialized" /\ last'.store = s)
                => /\ last'.res = [k \in {"initialized"} |-> initialized[s]]
                   /\ last'.calls = <<>>]_vars

\* Initialized() of a second instance has returned false over tables that an
\* Init call of the first instance, whose flag is set, has populated.
C31_Witness ==
    /\ last.op = "Initialized"
    /\ last.store = "s2"
    /\ last.res = [k \in {"initialized"} |-> FALSE]
    /\ initialized["s1"]
    /\ ~ initialized["s2"]
    /\ \E kind \in Kinds : tables[tableName(kind)] # EmptyMap

\* C32: an Init call changes only tables of kinds of its dataset: every step
\* of it leaves the table of a kind absent from the dataset as it is; when it
\* has returned nil the table of a kind mapped to no record is empty; and a
\* call with the empty dataset issues no backend request, returns nil and sets
\* the flag.
C32_InitTouchesItsKindsOnly ==
    [][last'.op \in {"Init", "InitStep"}
       => /\ \A kind \in Kinds \ DOMAIN last'.data :
                tables'[tableName(kind)] = tables[tableName(kind)]
          /\ (last'.op = "Init" /\ last'.err = "nil")
             => \A kind \in DOMAIN last'.data :
                   last'.data[kind] = EmptyMap => tables'[tableName(kind)] = EmptyMap
          /\ last'.data = EmptyMap
             => /\ last'.op = "Init"
                /\ last'.calls = <<>>
                /\ last'.err = "nil"
                /\ tables' = tables
                /\ initialized'[last'.store]]_vars

\* A request of the step failed in transport.
RequestFailed(step) == step.code = "RequestError"

\* A failed request ends the call with its error: nothing is reissued, the
\* tables stay as they are, and an Init call is over.
SurfacedAtOnce ==
    RequestFailed(last')
    => /\ last'.err = "RequestError"
       /\ Len(last'.calls) = 1
       /\ tables' = tables
       /\ last'.op # "InitStep"
       /\ last'.op = "Init" => proc'[last'.store] = IdleProc

\* A step of Init that submits a batch submits it once and goes on behind it:
\* to the requests after the batch, to the next phase, or to its return, also
\* when the call failed or left requests unprocessed.
BatchSubmittedOnce ==
    \A s \in Stores :
       ( /\ last'.op \in {"Init", "InitStep"}
         /\ last'.store = s
         /\ proc[s].pc \in {"delete", "put"} )
       => /\ Len(last'.calls) = 1
          /\ last'.calls[1] \in {"BatchWriteItem:Delete", "BatchWriteItem:Put"}
          /\ \/ proc'[s].pc # proc[s].pc
             \/ proc'[s].kind # proc[s].kind
             \/ proc'[s].reqs = RestRequests(proc[s].reqs)
          /\ (proc'[s].pc # proc[s].pc /\ ~ RequestFailed(last'))
             => Len(RestRequests(proc[s].reqs)) = 0

\* C34, as claimed: every Get, Upsert and Delete call issues exactly one
\* backend request, every batch of Init is submitted at most once, and a failed
\* request is returned to the caller without being reissued.
C34_Original ==
    [][/\ last'.op = "Get" => last'.calls = <<"GetItem">>
       /\ PointWrite(last') => last'.calls = <<"PutItem">>
       /\ BatchSubmittedOnce
       /\ SurfacedAtOnce]_vars

\* C34, amended: every Get call issues exactly one backend request; every
\* Upsert and Delete call issues exactly one, except that it issues none when
\* its record cannot be encoded; every batch of Init is submitted at most
\* once; and a failed request is returned to the caller without being reissued.
C34_NoAutomaticRetry ==
    [][/\ last'.op = "Get" => last'.calls = <<"GetItem">>
       /\ PointWrite(last')
          => \A item \in last'.item :
                last'.calls = IF MarshalMapError(item) # "nil" THEN <<>> ELSE <<"PutItem">>
       /\ BatchSubmittedOnce
       /\ SurfacedAtOnce]_vars

\* The PutItem of an Upsert has failed: the call has issued that one request
\* and returned its error, the tables being as they were.
C34_Witness ==
    /\ last.op = "Upsert"
    /\ last.code = "RequestError"
    /\ last.err = "RequestError"
    /\ last.calls = <<"PutItem">>
    /\ \E kind \in Kinds : tables[tableName(kind)] # EmptyMap

\* C35: Get, All and Initialized are read-only: a step of one of them,
\* whether it returns a record, not-found or an error, leaves every table and
\* the flag of every store instance as they are.
C35_ReadsChangeNothing ==
    [][last'.op \in {"Get", "All", "Initialized"}
       => /\ \A t \in TableNames : tables'[t] = tables[t]
          /\ \A s \in Stores : initialized'[s] = initialized[s]]_vars

\* An All has returned without error over a table that holds a tombstone, which
\* it has left stored, while the flag of a store instance is set.
C35_Witness ==
    /\ last.op = "All"
    /\ last.err = "nil"
    /\ \E k \in DOMAIN tables[tableName(last.kind)] :
          tables[tableName(last.kind)][k].deleted.BOOL
    /\ \E s \in Stores : initialized[s]

(***************************************************************************)
(* Point writes applied in any order (SpecRace).                           *)
(***************************************************************************)
\* What the key of the race held when the calls were issued, and holds now.
RaceStart == GetItem(start, tableName("Features"), "a")

RaceStored == Stored("Features", "a")

RECURSIVE Replay(_, _, _)
\* The tables after the backend has applied the calls of a sequence in its
\* order, from the i-th on.
Replay(tbls, calls, i) ==
    IF i > Len(calls) THEN tbls
    ELSE Replay(PutItem(tbls, tableName("Features"), MarshalMap(calls[i].item), "ok"),
                calls, i + 1)

\* Every order of the applied calls ends in the tables reached.
SameInEveryOrder ==
    \A order \in Perms({applied[i] : i \in 1 .. Len(applied)}) :
       Replay(start, order, 1) = tables

\* The applied calls are two Upserts with the versions v1 < v2, in either order.
TwoUpserts(r1, r2) ==
    /\ pending = {}
    /\ Len(applied) = 2
    /\ {applied[1], applied[2]} = {[op |-> "Upsert", item |-> r1], [op |-> "Upsert", item |-> r2]}
    /\ r1.version < r2.version

\* C3, as claimed: two concurrent Upserts of one key with the versions v1 < v2,
\* applied in either order, end with the v2 record stored.
C3_Original ==
    \A r1, r2 \in VersionedData : TwoUpserts(r1, r2) => RaceStored = MarshalMap(r2)

\* C3, amended: two concurrent Upserts of one key with the versions v1 < v2,
\* applied in either order, end with the v2 record stored when the key was
\* absent or stored with a version below v2 (and with the item stored before,
\* unchanged, when its version was v2 or more).
C3_HigherVersionWins ==
    \A r1, r2 \in VersionedData :
       TwoUpserts(r1, r2)
       => IF DOMAIN RaceStart = {} \/ RaceStart.version.N < r2.version
          THEN RaceStored = MarshalMap(r2)
          ELSE RaceStored = RaceStart

\* The v2 record arrived first, the v1 record after it, over a stored item of a
\* version below v2; the v2 record is what is stored.
C3_Witness ==
    /\ pending = {}
    /\ Len(applied) = 2
    /\ applied[1].op = "Upsert" /\ applied[2].op = "Upsert"
    /\ applied[1].item.version > applied[2].item.version
    /\ DOMAIN RaceStart # {}
    /\ RaceStart.version.N < applied[1].item.version
    /\ RaceStored = MarshalMap(applied[1].item)

\* C4, as claimed: whatever the Upsert and Delete calls on one key, calls of
\* the same version with different payloads or deleted flags included, the
\* record stored at the end is the same for every order of applying them.
C4_Original == pending = {} => SameInEveryOrder

\* No two of the applied calls carry the same version.
DistinctVersions ==
    \A i, j \in 1 .. Len(applied) : i # j => applied[i].item.version # applied[j].item.version

\* The record the version numbers alone select: that of the greatest version
\* among the calls if it is above the version stored at the start, and else
\* the item stored at the start.
LastWriterWins ==
    LET top == CHOOSE i \in 1 .. Len(applied) :
                  \A j \in 1 .. Len(applied) : applied[j].item.version <= applied[i].item.version
    IN  IF DOMAIN RaceStart = {} \/ RaceStart.version.N < applied[top].item.version
        THEN MarshalMap(applied[top].item)
        ELSE RaceStart

\* C4, amended: for any finite set of Upsert and Delete calls on one key no two
\* of which carry the same version, the record stored at the end is the same
\* for every order of applying them, and the version numbers alone select it.
\* (Of two calls of one version the one applied first wins.)
C4_DistinctVersionsCommute ==
    (pending = {} /\ DistinctVersions)
    => /\ SameInEveryOrder
       /\ RaceStored = LastWriterWins

\* An Upsert and a Delete of different versions were applied, the higher
\* version first.
C4_Witness ==
    /\ pending = {}
    /\ Len(applied) = 2
    /\ applied[1].op = "Delete" /\ applied[2].op = "Upsert"
    /\ applied[1].item.version > applied[2].item.version
    /\ RaceStored = MarshalMap(applied[1].item)

\* C17: a Get that starts after Upsert and Delete calls on its key have
\* returned nil, no Init having run, observes no state older than any of those
\* writes: it returns a record of a version >= the version of each of them, or
\* not-found with a tombstone of such a version stored.
C17_GetIsConsistent ==
    (last.op = "Get" /\ last.err = "nil")
    => \A i \in 1 .. Len(applied) :
          \/ /\ last.res = EmptyMap
             /\ RaceStored # EmptyMap
             /\ RaceStored.deleted.BOOL
             /\ RaceStored.version.N >= applied[i].item.version
          \/ /\ DOMAIN last.res = {"a"}
             /\ ~ last.res["a"].deleted
             /\ last.res["a"].version >= applied[i].item.version

\* Get has returned the record of the last of the writes applied, which
\* replaced the item stored before them.
C17_Witness ==
    /\ last.op = "Get"
    /\ Len(applied) = MaxCalls
    /\ last.res = Returned(applied[Len(applied)].item)
    /\ RaceStart # EmptyMap

\* C29: a tombstone is not final.  An Upsert of a record that is not marked
\* deleted, of a version greater than the version of the tombstone stored for
\* its key, replaces the tombstone: the Get that follows returns the record, as
\* it is read back from its encoding, and All includes it.
C29_TombstoneIsNotFinal ==
    /\ [][( /\ Answered(last', "Upsert", "Features", "a")
            /\ RaceStored # EmptyMap
            /\ RaceStored.deleted.BOOL
            /\ \A item \in last'.item :
                  ~ item.deleted /\ item.version > RaceStored.version.N )
          => /\ last'.code = "nil"
             /\ last'.err = "nil"
             /\ \A item \in last'.item :
                   /\ GetItem(tables', tableName("Features"), "a") = MarshalMap(item)
                   /\ GetResult(tables', "Features", "a") = {ReadBack(item)}
                   /\ "a" \in DOMAIN AllResult(tables', "Features")
                   /\ AllResult(tables', "Features")["a"] = ReadBack(item)]_vars
    /\ [][( /\ Answered(last, "Upsert", "Features", "a")
            /\ last.code = "nil"
            /\ \A item \in last.item : ~ item.deleted
            /\ Answered(last', "Get", "Features", "a") )
          => /\ last'.err = "nil"
             /\ \A item \in last.item : last'.res = Returned(ReadBack(item))]_vars

\* Over the tombstone of version 1 stored at the start, the Upsert of a record
\* of version 2 that is not marked deleted has been applied, and Get and All
\* return that record.
C29_Witness ==
    /\ RaceStart = MarshalMap(MakeDeletedItem("Features", "a", 1))
    /\ applied = <<[op |-> "Upsert", item |-> Live("a", 2)]>>
    /\ last.op = "Upsert"
    /\ last.code = "nil"
    /\ RaceStored = MarshalMap(Live("a", 2))
    /\ GetResult(tables, "Features", "a") = {Live("a", 2)}
    /\ AllResult(tables, "Features") = Returned(Live("a", 2))

(***************************************************************************)
(* Items that do not decode (SpecDecode).                                  *)
(***************************************************************************)
\* A stored attribute map that does not have the shape of a record.
Undecodable(av) == "N" \notin DOMAIN av.version

\* C18: over a stored item that cannot be decoded, a Get of its key returns
\* an error, never not-found, and an All of its table returns an error and no
\* map, never a map of the other items.
C18_DecodeErrorsAreFatal ==
    /\ \A kind \in Kinds, key \in Keys :
          ( /\ Answered(last, "Get", kind, key)
            /\ Present(kind, key)
            /\ Undecodable(Stored(kind, key)) )
          => last.err = "UnmarshalTypeError" /\ last.res = EmptyMap
    /\ ( /\ last.op = "All"
         /\ last.code = "nil"
         /\ \E k \in DOMAIN tables[tableName(last.kind)] :
               Undecodable(tables[tableName(last.kind)][k]) )
       => last.err = "UnmarshalTypeError" /\ last.res = EmptyMap

\* All has returned an error for a table that holds an item that does not
\* decode next to a live record.
C18_Witness ==
    /\ last.op = "All"
    /\ last.err = "UnmarshalTypeError"
    /\ \E k \in DOMAIN tables[tableName(last.kind)] :
          tables[tableName(last.kind)][k] = MarshalMap(Live(k, 1))

\* C30: while the table of a kind holds an item that cannot be decoded, an
\* Init call whose dataset has that kind returns the decode error at the scan
\* of that table, having issued no delete and no put for it; no step changes
\* the table or sets initialized, so every further Init call fails the same
\* way (the scan having been answered).
C30_UndecodableItemBlocksInit ==
    [][\A kind \in DOMAIN RetryDataset :
          AllError(tables, kind) # "nil"
          => /\ tables'[tableName(kind)] = tables[tableName(kind)]
             /\ initialized' = initialized
             /\ ( /\ last'.op \in {"Init", "InitStep"}
                  /\ last'.calls = <<"Scan">>
                  /\ last'.kind = kind
                  /\ last'.code # "RequestError" )
                => /\ last'.op = "Init"
                   /\ last'.err = "UnmarshalTypeError"
                   /\ proc'[last'.store] = IdleProc
             /\ last'.calls \in {<<"BatchWriteItem:Delete">>, <<"BatchWriteItem:Put">>}
                => last'.kind # kind]_vars

\* An Init call has returned the decode error at the scan of the table of
\* Features, which holds, as at the start, an item that does not decode next to
\* a live record; initialized is not set.
C30_Witness ==
    /\ last.op = "Init"
    /\ last.kind = "Features"
    /\ last.calls = <<"Scan">>
    /\ last.err = "UnmarshalTypeError"
    /\ ~ initialized[last.store]
    /\ tables[tableName("Features")] = start[tableName("Features")]
    /\ \E k \in DOMAIN tables[tableName("Features")] :
          Undecodable(tables[tableName("Features")][k])
    /\ \E k \in DOMAIN tables[tableName("Features")] :
          tables[tableName("Features")][k] = MarshalMap(Live(k, 1))

(***************************************************************************)
(* The codec (SpecCodec).                                                  *)
(***************************************************************************)
\* C19: encoding a record of any kind into an attribute map and decoding the
\* map back with the kind's empty shell succeeds and yields a record equal to
\* the original in key, version, deleted flag and payload.
C19_RoundTrip ==
    last.op = "RoundTrip"
    => /\ last.err = "nil"
       /\ \E item \in last.item : last.res = Returned(item)

(***************************************************************************)
(* The webhook handler (SpecWebhook).                                      *)
(***************************************************************************)
\* C21: with a webhook secret configured, a request whose X-Ld-Signature
\* header is not the HMAC-SHA256 hex digest of its body under the secret is
\* answered 401 and does not reach the store: the step changes no store and
\* no table, and a store starts an Init only right after a request that
\* passed the check.
C21_BadSignatureIsRejected ==
    /\ ( /\ last.op = "handler"
         /\ last.data.secret # ""
         /\ last.data.signature # hmacSHA256(last.data.body, last.data.secret) )
       => last.code = "StatusUnauthorized"
    /\ [][/\ last'.op = "handler"
             => /\ tables' = tables
                /\ proc' = proc
                /\ initialized' = initialized
          /\ \A s \in Stores :
                (proc[s].pc = "idle" /\ proc'[s].pc # "idle")
                => /\ last.op = "handler"
                   /\ last.code # "StatusUnauthorized"
                   /\ \/ last.data.secret = ""
                      \/ last.data.signature
                            = hmacSHA256(last.data.body, last.data.secret)]_vars

\* A request signed under another secret has been answered 401 while the
\* Init of an earlier request is running.
C21_Witness ==
    /\ last.op = "handler"
    /\ last.code = "StatusUnauthorized"
    /\ last.data.secret = "secret"
    /\ last.data.signature = hmacSHA256(last.data.body, "other")
    /\ \E s \in Stores : proc[s].pc # "idle"

(***************************************************************************)
(* Readers during Init (SpecWindow).                                       *)
(***************************************************************************)
\* An Init call has emptied the table of Features and has its puts to issue.
InWindow ==
    /\ tables[tableName("Features")] = EmptyMap
    /\ \E s \in Stores : proc[s].pc = "put" /\ proc[s].kind = "Features"

\* C23: a read that runs while an Init call is between its deletes and its
\* puts of a table observes the table as it is then, empty: Get returns
\* not-found and All returns the empty map, also for a key that is live in the
\* old generation and in the dataset.
C23_ReadersSeeTheEmptyTable ==
    InWindow
    => /\ Answered(last, "Get", "Features", "a")
          => last.res = EmptyMap /\ last.err = "nil"
       /\ (last.op = "All" /\ last.code = "nil")
          => last.res = EmptyMap /\ last.err = "nil"

\* All has returned the empty map, and a Get of key a would return not-found,
\* while an Init call has deleted the live record of a of the old generation
\* and has not yet put the live record of a of its dataset.
C23_Witness ==
    /\ last.op = "All"
    /\ last.err = "nil"
    /\ last.res = EmptyMap
    /\ GetResult(tables, "Features", "a") = {}
    /\ GetResult(start, "Features", "a") = {Live("a", 1)}
    /\ \E s \in Stores :
          /\ proc[s].pc = "put"
          /\ proc[s].kind = "Features"
          /\ "a" \in DOMAIN proc[s].data["Features"]
          /\ ~ proc[s].data["Features"]["a"].deleted
          /\ \E i \in 1 .. Len(proc[s].reqs) : proc[s].reqs[i].key = "a"

(***************************************************************************)
(* Two Init calls at once (SpecTwoInits).                                  *)
(***************************************************************************)
\* C24: once the Init calls of both callers have returned nil, the table of
\* Features holds exactly the records of one caller's dataset or exactly those
\* of the other's, never items of both.
C24_OneDatasetWins ==
    (Quiet /\ \A s \in Stores : initialized[s])
    => \E s \in Stores :
          tables[tableName("Features")] = InitContents(InitDataset(s))[tableName("Features")]

(***************************************************************************)
(* The batches of batchWriteRequests (SpecBatches).                        *)
(***************************************************************************)
RECURSIVE Flatten(_, _)
\* The requests of a sequence of batches, from the i-th batch on, in order.
Flatten(batches, i) ==
    IF i > Len(batches) THEN <<>> ELSE batches[i] \o Flatten(batches, i + 1)

\* The call on the request list has returned.
BatchesReturned == last.op = "batchWriteRequests"

\* C33: batchWriteRequests submits consecutive batches of the request list:
\* every batch holds between 1 and 25 requests, the batches submitted followed
\* by the requests left are the list, request by request and in its order, a
\* call that returns nil has submitted every request in exactly one batch, and
\* a call on the empty list submits nothing.
C33_BatchesPartitionTheList ==
    /\ \A i \in 1 .. Len(applied) : Len(applied[i]) \in 1 .. 25
    /\ Flatten(applied, 1) = SubSeq(start, 1, Len(Flatten(applied, 1)))
    /\ proc["s1"].pc = "put" => Flatten(applied, 1) \o proc["s1"].reqs = start
    /\ (BatchesReturned /\ last.err = "nil") => Flatten(applied, 1) = start
    /\ last.calls = <<"BatchWriteItem">> => Len(applied) > 0
    /\ Len(start) = 0 => applied = <<>> /\ last.calls = <<>>

\* The call on a list of two full batches and one request more has returned
\* nil after three batches, the last of one request.
C33_Witness ==
    /\ BatchesReturned
    /\ last.err = "nil"
    /\ Len(start) = 2 * MaxBatchSize + 1
    /\ Len(applied) = 3
    /\ Len(applied[1]) = MaxBatchSize
    /\ Len(applied[3]) = 1

(***************************************************************************)
(* The batched Init and the per-item Init (SpecEquivalence).               *)
(***************************************************************************)
\* C36: when the batched Init (store s1, on tables) and the per-item Init
\* (store s2, on start), called on the same table contents with the same
\* dataset, no backend call failing and no other writer running, have both
\* returned, the tables they leave are the same and so are the flags.
C36_BatchedEqualsPerItem ==
    Quiet => tables = start /\ initialized["s1"] = initialized["s2"]

====
